---- MODULE Spec2Model ----
(***************************************************************************)
(* Model of the Oxford University Press spider                             *)
(* (hepcrawl/spiders/oup_spider.py): remote discovery (start_requests),    *)
(* bundle unpacking (handle_package_ftp, unzip_files) and record           *)
(* extraction (parse_node).                                                *)
(*                                                                         *)
(* Paths and names are TLA+ strings; Python's 0-based string operations    *)
(* are written with 1-based SubSeq.                                        *)
(***************************************************************************)
EXTENDS Integers, Sequences, FiniteSets, TLC

VARIABLES
    zip,          \* the bundle handed to handle_package_ftp: [path, names]
    fs,           \* sequential unpacking: the set of local file paths that exist
    runs,         \* sequential unpacking: one record per finished handle_package_ftp call
    disk,         \* concurrent unpacking: [dirs, files] (files: path -> chunks written)
    task,         \* concurrent unpacking: the two tasks' positions and locals
    doc,          \* parse_node: the article node
    meta,         \* parse_node: response.meta
    result,       \* parse_node: what the call produced
    package_path, \* spider argument
    remote,       \* the FTP server's tree
    sr,           \* start_requests: position of the generator and its locals
    requests,     \* start_requests: the Requests yielded so far
    affdoc,       \* _get_authors: the document's authors and affiliations
    authors       \* _get_authors: the extracted authors

vars == <<zip, fs, runs, disk, task, doc, meta, result,
          package_path, remote, sr, requests, affdoc, authors>>

None == "None"

--------------------------------------------------------------------------
(* Python string and os.path primitives *)

MinOf(S) == CHOOSE x \in S : \A y \in S : x <= y
MaxOf(S) == CHOOSE x \in S : \A y \in S : x >= y

\* 1-based positions at which sub occurs in s
Occurs(s, sub) ==
    {i \in 1..(Len(s) - Len(sub) + 1) : SubSeq(s, i, i + Len(sub) - 1) = sub}

\* sub in s
Contains(s, sub) == Occurs(s, sub) # {}

\* s.find(sub): 0-based index of the first occurrence, -1 when there is none
Find(s, sub) == IF Occurs(s, sub) = {} THEN -1 ELSE MinOf(Occurs(s, sub)) - 1

\* s.rfind(sub)
RFind(s, sub) == IF Occurs(s, sub) = {} THEN -1 ELSE MaxOf(Occurs(s, sub)) - 1

StartsWith(s, p) == Len(p) <= Len(s) /\ SubSeq(s, 1, Len(p)) = p

EndsWith(s, suf) ==
    Len(suf) <= Len(s) /\ SubSeq(s, Len(s) - Len(suf) + 1, Len(s)) = suf

\* s[a:b], with Python's treatment of negative and out-of-range indices
PySlice(s, a, b) ==
    LET n == Len(s)
        norm(i) == IF i < 0 THEN (IF n + i < 0 THEN 0 ELSE n + i)
                   ELSE (IF i > n THEN n ELSE i)
    IN SubSeq(s, norm(a) + 1, norm(b))

\* os.path.splitext (genericpath._splitext): the extension starts at the last
\* dot of the last component, leading dots of the component not counted
SplitExt(p) ==
    LET sepIndex == RFind(p, "/")
        dotIndex == RFind(p, ".")
        hasExt == /\ dotIndex > sepIndex
                  /\ \E k \in (sepIndex + 1)..(dotIndex - 1) :
                        SubSeq(p, k + 1, k + 1) # "."
    IN IF hasExt
       THEN <<PySlice(p, 0, dotIndex), PySlice(p, dotIndex, Len(p))>>
       ELSE <<p, "">>

\* the loop of handle_package_ftp that strips extensions until none is left
RECURSIVE StripExts(_)
StripExts(p) ==
    LET r == SplitExt(p)
    IN IF r[2] = "" THEN r[1] ELSE StripExts(r[1])

\* os.path.join(a, b)
PathJoin(a, b) ==
    IF StartsWith(b, "/") THEN b
    ELSE IF a = "" \/ EndsWith(a, "/") THEN a \o b
    ELSE a \o "/" \o b

RECURSIVE RStripSlash(_)
RStripSlash(s) ==
    IF s # "" /\ EndsWith(s, "/") THEN RStripSlash(SubSeq(s, 1, Len(s) - 1)) ELSE s

\* os.path.dirname
Dirname(p) ==
    LET i == RFind(p, "/") + 1
        head == PySlice(p, 0, i)
    IN IF head # "" /\ RStripSlash(head) # "" THEN RStripSlash(head) ELSE head

\* os.path.basename
Basename(p) == PySlice(p, RFind(p, "/") + 1, Len(p))

\* s.split('.')[0]
SplitDot0(s) == IF Find(s, ".") = -1 THEN s ELSE PySlice(s, 0, Find(s, "."))

--------------------------------------------------------------------------
(* Bundle unpacking, one call at a time *)

MaxEntries == 2
MaxRuns == 2
MaxPre == 1

\* names of zip entries (relative, as the zip format requires)
EntryNames == {"a.xml", "s/b.c.xml", "a.pdf", "r.txt"}

NameLists == UNION {[1..n -> EntryNames] : n \in 0..MaxEntries}

\* local bundle paths: <download dir>/<stem><markers>.zip
BundlePaths ==
    {d \o st \o mk \o ".zip" :
        d \in {"/d/", "/d_archival/"},
        st \in {"a", "a_archival"},
        mk \in {"", ".xml", ".pdf", ".img"}}

Bundles == [path : BundlePaths, names : NameLists]

\* unzip_files without the os.path.exists test
RECURSIVE UnzipAlways(_, _, _, _, _)
UnzipAlways(names, target_folder, type, files, i) ==
    IF i > Len(names) THEN [files |-> files, written |-> <<>>, out |-> <<>>]
    ELSE
        LET filename == names[i] IN
        IF EndsWith(filename, type)
        THEN LET absolute_path == PathJoin(target_folder, filename)
                 rest == UnzipAlways(names, target_folder, type,
                                     files \cup {absolute_path}, i + 1)
             IN [files |-> rest.files,
                 written |-> <<absolute_path>> \o rest.written,
                 out |-> <<absolute_path>> \o rest.out]
        ELSE UnzipAlways(names, target_folder, type, files, i + 1)

\* unzip_files: the loop over z.namelist() from entry i on.  files is the
\* set of existing paths; written lists the z.extract calls; out is xml_files.
RECURSIVE UnzipFrom(_, _, _, _, _)
UnzipFrom(names, target_folder, type, files, i) ==
    IF i > Len(names) THEN [files |-> files, written |-> <<>>, out |-> <<>>]
    ELSE
        LET filename == names[i] IN
        IF EndsWith(filename, type)
        THEN LET absolute_path == PathJoin(target_folder, filename)
                 exists == absolute_path \in files
                 rest == UnzipFrom(names, target_folder, type,
                                   files \cup {absolute_path}, i + 1)
             IN [files |-> rest.files,
                 written |-> (IF exists THEN <<>> ELSE <<absolute_path>>)
                                \o rest.written,
                 out |-> <<absolute_path>> \o rest.out]
        ELSE UnzipFrom(names, target_folder, type, files, i + 1)

unzip_files(names, target_folder, type, files) ==
    UnzipFrom(names, target_folder, type, files, 1)

\* the meta of the Request yielded for one XML file
XmlTask(zip_filepath, xml_file) ==
    LET dir_path == Dirname(xml_file)
        filename == SplitDot0(Basename(xml_file))
    IN [url |-> "file://" \o xml_file,
        package_path |-> zip_filepath,
        xml_url |-> xml_file,
        pdf_url |-> PathJoin(PathJoin(dir_path, "pdf"), filename \o ".pdf"),
        pdfa_url |-> PathJoin(PathJoin(dir_path, "archival"), filename \o ".pdf")]

\* zip_target_folder after the `".pdf" in zip_filepath` stage
FolderAfterPdf(zip_filepath) ==
    IF Contains(zip_filepath, ".pdf")
    THEN PathJoin(StripExts(zip_filepath), "pdf")
    ELSE StripExts(zip_filepath)

\* zip_target_folder after the `endswith("_archival")` stage
FolderAfterArchival(zip_filepath) ==
    LET f == FolderAfterPdf(zip_filepath)
    IN IF EndsWith(f, "_archival")
       THEN PathJoin(PySlice(f, 0, Find(f, "_archival")), "archival")
       ELSE f

\* the unzip_files calls handle_package_ftp makes, in order
UnzipCalls(zip_filepath) ==
    (IF Contains(zip_filepath, ".pdf")
     THEN <<[folder |-> FolderAfterPdf(zip_filepath), type |-> ".pdf"]>>
     ELSE <<>>)
    \o (IF EndsWith(FolderAfterPdf(zip_filepath), "_archival")
        THEN <<[folder |-> FolderAfterArchival(zip_filepath), type |-> ".pdf"]>>
        ELSE <<>>)
    \o (IF Contains(zip_filepath, ".xml")
        THEN <<[folder |-> FolderAfterArchival(zip_filepath), type |-> ".xml"]>>
        ELSE <<>>)

\* the Requests the handler yields from the xml_files of its last call
XmlTasks(zip_filepath, xml_files) ==
    IF Contains(zip_filepath, ".xml")
    THEN [k \in 1..Len(xml_files) |-> XmlTask(zip_filepath, xml_files[k])]
    ELSE <<>>

RECURSIVE RunCalls(_, _, _)
RunCalls(calls, names, st) ==
    IF calls = <<>> THEN st
    ELSE LET u == unzip_files(names, Head(calls).folder, Head(calls).type, st.files)
         IN RunCalls(Tail(calls), names,
                     [files |-> u.files, written |-> st.written \o u.written,
                      out |-> u.out])

\* handle_package_ftp(response) with response.body = zip_filepath
handle_package_ftp(zip_filepath, names, files) ==
    LET r == RunCalls(UnzipCalls(zip_filepath), names,
                      [files |-> files, written |-> <<>>, out |-> <<>>])
    IN [files |-> r.files, written |-> r.written,
        tasks |-> XmlTasks(zip_filepath, r.out)]

\* every path a first unpacking of bundle b writes
Targets(b) ==
    LET r == handle_package_ftp(b.path, b.names, {})
    IN {r.written[k] : k \in 1..Len(r.written)}

HandlePackageFtp ==
    /\ Len(runs) < MaxRuns
    /\ LET r == handle_package_ftp(zip.path, zip.names, fs)
       IN /\ fs' = r.files
          /\ runs' = Append(runs, [before |-> fs, after |-> r.files,
                                   written |-> r.written, tasks |-> r.tasks])
    /\ UNCHANGED <<zip, disk, task, doc, meta, result,
                   package_path, remote, sr, requests, affdoc, authors>>

IdleUnpack == fs = {} /\ runs = <<>>
IdleZip == zip = [path |-> "", names |-> <<>>]
IdleRace == disk = [dirs |-> {}, files |-> <<>>] /\ task = <<>>
NotCalled == [kind |-> "notcalled"]
IdleParse == doc = None /\ meta = <<>> /\ result = NotCalled
IdleStart ==
    /\ package_path = None
    /\ remote = <<>>
    /\ sr = [pc |-> "idle"]
    /\ requests = <<>>
NoAuthors == [called |-> FALSE, out |-> <<>>]
IdleAffil == affdoc = None /\ authors = NoAuthors

InitUnpack ==
    /\ zip \in Bundles
    /\ fs \in {pre \in SUBSET Targets(zip) : Cardinality(pre) <= MaxPre}
    /\ runs = <<>>
    /\ IdleRace /\ IdleParse /\ IdleStart /\ IdleAffil

NextUnpack == HandlePackageFtp

SpecUnpack == InitUnpack /\ [][NextUnpack]_vars

ArchivalSuffix == "_archival"

\* the zip entries of the bundle that end in type, in namelist order
EntriesOf(names, type) == SelectSeq(names, LAMBDA n : EndsWith(n, type))

SeqToSet(q) == {q[k] : k \in 1..Len(q)}

\* C3: a bundle whose extension-stripped path ends in _archival has its .pdf
\* entries extracted into <stem without _archival>/archival/, and nothing is
\* extracted under the literal <stem>_archival folder.
C3_ArchivalRouting ==
    \A k \in 1..Len(runs) :
        LET stem == StripExts(zip.path) IN
        EndsWith(stem, ArchivalSuffix) =>
            LET stripped == SubSeq(stem, 1, Len(stem) - Len(ArchivalSuffix))
                folder == stripped \o "/archival"
            IN /\ \A n \in SeqToSet(EntriesOf(zip.names, ".pdf")) :
                      (folder \o "/" \o n) \in runs[k].after
               /\ \A w \in SeqToSet(runs[k].written) :
                      ~StartsWith(w, stem \o "/")

\* C4: a second unpacking of the same bundle extracts nothing, leaves the set
\* of local files as it was and emits the same extraction tasks as the first.
C4_IdempotentUnpack ==
    \A k \in 2..Len(runs) :
        /\ runs[k].written = <<>>
        /\ runs[k].after = runs[k].before
        /\ runs[k].tasks = runs[1].tasks
        /\ \A t \in SeqToSet(runs[k].tasks) : t.xml_url \in runs[k].before

C4_Witness ==
    /\ Len(runs) = 2
    /\ runs[1].written # <<>>
    /\ runs[1].before # {}
    /\ runs[2].tasks # <<>>

\* C6: a bundle whose path contains .xml has its .xml entries extracted
\* directly into the extension-stripped bundle path, and one task is emitted
\* per .xml entry carrying the bundle path, the XML path and the sibling
\* paths <xml dir>/pdf/<basename>.pdf and <xml dir>/archival/<basename>.pdf.
C6_XmlLayout ==
    \A k \in 1..Len(runs) :
        Contains(zip.path, ".xml") =>
            LET stem == StripExts(zip.path)
                xmls == EntriesOf(zip.names, ".xml")
            IN /\ Len(runs[k].tasks) = Len(xmls)
               /\ \A j \in 1..Len(xmls) :
                    LET x == stem \o "/" \o xmls[j]
                        t == runs[k].tasks[j]
                        base == SplitDot0(Basename(x))
                    IN /\ x \in runs[k].after
                       /\ t.package_path = zip.path
                       /\ t.xml_url = x
                       /\ t.pdf_url = Dirname(x) \o "/pdf/" \o base \o ".pdf"
                       /\ t.pdfa_url = Dirname(x) \o "/archival/" \o base \o ".pdf"

--------------------------------------------------------------------------
(* Bundle unpacking, two tasks at a time.  Each task runs handle_package_ftp *)
(* on the same bundle; a step is one file-system operation of unzip_files    *)
(* or of the ZipFile.extract call it makes.                                  *)

NChunks == 2
Tasks == {1, 2}

RaceLists == UNION {[1..n -> EntryNames] : n \in 0..MaxEntries}
RaceBundles ==
    [path : {"/d/a.zip", "/d/a.xml.zip", "/d/a.pdf.zip", "/d/a_archival.zip"},
     names : RaceLists]

\* the absolute_path values the loops of unzip_files visit, call after call
RECURSIVE Visits(_, _)
Visits(calls, names) ==
    IF calls = <<>> THEN <<>>
    ELSE LET c == Head(calls)
             sel == EntriesOf(names, c.type)
         IN [k \in 1..Len(sel) |-> PathJoin(c.folder, sel[k])]
            \o Visits(Tail(calls), names)

\* a directory and every directory above it
Ancestors(dir) ==
    {SubSeq(dir, 1, k - 1) : k \in {j \in Occurs(dir, "/") : j > 1}} \cup {dir}

WholeFile == 1..NChunks

\* os.path.exists
Exists(path) == path \in DOMAIN disk.files \/ path \in disk.dirs

Cur(t) == task[t].work[task[t].i]

\* ZipFile(filename) and z.namelist()
Begin(t) ==
    /\ task[t].pc = "start"
    /\ task' = [task EXCEPT ![t].pc = "loop"]
    /\ UNCHANGED <<zip, fs, runs, disk, doc, meta, result,
                   package_path, remote, sr, requests, affdoc, authors>>

\* `if not os.path.exists(absolute_path)`; a present entry is appended
ExistsCheck(t) ==
    /\ task[t].pc = "loop"
    /\ task[t].i <= Len(task[t].work)
    /\ task' = IF Exists(Cur(t))
               THEN [task EXCEPT ![t].i = @ + 1]
               ELSE [task EXCEPT ![t].pc = "dircheck"]
    /\ UNCHANGED <<zip, fs, runs, disk, doc, meta, result,
                   package_path, remote, sr, requests, affdoc, authors>>

\* z.extract: `if upperdirs and not os.path.exists(upperdirs)`
DirCheck(t) ==
    /\ task[t].pc = "dircheck"
    /\ LET upperdirs == Dirname(Cur(t))
       IN task' = IF upperdirs # "" /\ ~Exists(upperdirs)
                  THEN [task EXCEPT ![t].pc = "makedirs"]
                  ELSE [task EXCEPT ![t].pc = "open"]
    /\ UNCHANGED <<zip, fs, runs, disk, doc, meta, result,
                   package_path, remote, sr, requests, affdoc, authors>>

\* z.extract: os.makedirs(upperdirs), which raises when the leaf exists
MakeDirs(t) ==
    /\ task[t].pc = "makedirs"
    /\ LET upperdirs == Dirname(Cur(t))
       IN IF Exists(upperdirs)
          THEN /\ task' = [task EXCEPT ![t].pc = "error"]
               /\ UNCHANGED disk
          ELSE /\ task' = [task EXCEPT ![t].pc = "open"]
               /\ disk' = [disk EXCEPT !.dirs = @ \cup Ancestors(upperdirs)]
    /\ UNCHANGED <<zip, fs, runs, doc, meta, result,
                   package_path, remote, sr, requests, affdoc, authors>>

\* z.extract: open(targetpath, "wb") creates or truncates the file
OpenTarget(t) ==
    /\ task[t].pc = "open"
    /\ disk' = [disk EXCEPT !.files =
                    [q \in DOMAIN @ \cup {Cur(t)} |->
                        IF q = Cur(t) THEN {} ELSE @[q]]]
    /\ task' = [task EXCEPT ![t].pc = "copy", ![t].off = 0]
    /\ UNCHANGED <<zip, fs, runs, doc, meta, result,
                   package_path, remote, sr, requests, affdoc, authors>>

\* z.extract: shutil.copyfileobj writes the next chunk at the task's offset
CopyChunk(t) ==
    /\ task[t].pc = "copy"
    /\ disk' = [disk EXCEPT !.files[Cur(t)] = @ \cup {task[t].off + 1}]
    /\ task' = IF task[t].off + 1 = NChunks
               THEN [task EXCEPT ![t].pc = "loop", ![t].i = @ + 1,
                                 ![t].off = 0, ![t].written = Append(@, Cur(t))]
               ELSE [task EXCEPT ![t].off = @ + 1]
    /\ UNCHANGED <<zip, fs, runs, doc, meta, result,
                   package_path, remote, sr, requests, affdoc, authors>>

\* the loops are over: the Requests are yielded
Finish(t) ==
    /\ task[t].pc = "loop"
    /\ task[t].i > Len(task[t].work)
    /\ task' = [task EXCEPT ![t].pc = "done"]
    /\ UNCHANGED <<zip, fs, runs, disk, doc, meta, result,
                   package_path, remote, sr, requests, affdoc, authors>>

InitRace ==
    /\ zip \in RaceBundles
    /\ \E pre \in {x \in SUBSET Targets(zip) : Cardinality(x) <= MaxPre} :
          disk = [dirs |-> Ancestors(Dirname(zip.path))
                            \cup UNION {Ancestors(Dirname(q)) : q \in pre},
                  files |-> [q \in pre |-> WholeFile]]
    /\ task = [t \in Tasks |->
                 [pc |-> "start", i |-> 1, off |-> 0, written |-> <<>>,
                  work |-> Visits(UnzipCalls(zip.path), zip.names)]]
    /\ IdleUnpack /\ IdleParse /\ IdleStart /\ IdleAffil

NextRace ==
    \E t \in Tasks :
        \/ Begin(t)
        \/ ExistsCheck(t)
        \/ DirCheck(t)
        \/ MakeDirs(t)
        \/ OpenTarget(t)
        \/ CopyChunk(t)
        \/ Finish(t)

SpecRace == InitRace /\ [][NextRace]_vars

AllEnded == \A t \in Tasks : task[t].pc \in {"done", "error"}

\* C10: when two tasks unpack the same bundle concurrently, whatever the
\* interleaving, both end without error and the local files and their
\* contents are those a single unpacking leaves.
C10_ConcurrentUnpack ==
    AllEnded =>
        /\ \A t \in Tasks : task[t].pc = "done"
        /\ DOMAIN disk.files = handle_package_ftp(zip.path, zip.names, {}).files
        /\ \A q \in DOMAIN disk.files : disk.files[q] = WholeFile

\* the file contents alone: every file a finished run leaves is whole
RaceFilesWhole ==
    (\A t \in Tasks : task[t].pc = "done") =>
        /\ DOMAIN disk.files = handle_package_ftp(zip.path, zip.names, {}).files
        /\ \A q \in DOMAIN disk.files : disk.files[q] = WholeFile

--------------------------------------------------------------------------
(* Record extraction: parse_node.  Python values carry their type, so that  *)
(* a method call or a subscript does what Python does on that type.         *)

allowed_article_types ==
    {"research-article", "corrected-article", "original-article",
     "introduction", "letter", "correction", "addendum", "review-article",
     "rapid-communications"}

article_type_mapping ==
    [t \in allowed_article_types |->
        CASE t \in {"research-article", "corrected-article", "original-article"}
                -> "article"
          [] t = "correction" -> "corrigendum"
          [] t = "addendum" -> "addendum"
          [] OTHER -> "other"]

default_article_type == "unknown"

\* article-type attribute values of the documents parsed
RawTypes ==
    allowed_article_types
        \cup {"Research-Article", "LETTER", "Correction", "abstract",
              "editorial", "Book-Review"}

MetaKeys == {"xml_url", "pdf_url", "pdfa_url"}

MetaPaths == [xml_url |-> "/d/a/a.xml", pdf_url |-> "/d/a/pdf/a.pdf",
              pdfa_url |-> "/d/a/archival/a.pdf"]

UpperCase == "ABCDEFGHIJKLMNOPQRSTUVWXYZ"
LowerCase == "abcdefghijklmnopqrstuvwxyz"

RECURSIVE StrLower(_)
\* str.lower
StrLower(s) ==
    IF s = "" THEN ""
    ELSE LET c == SubSeq(s, 1, 1)
             k == Find(UpperCase, c)
         IN (IF k = -1 THEN c ELSE SubSeq(LowerCase, k + 1, k + 1))
            \o StrLower(SubSeq(s, 2, Len(s)))

PyStr(s) == [kind |-> "str", s |-> s]
PyList(items) == [kind |-> "list", items |-> items]
Raise(exc) == [kind |-> "raise", exc |-> exc]
Return(v) == [kind |-> "return", value |-> v]
PyNone == [kind |-> "None"]

\* node.xpath('@article-type').extract(): the list of the matches
ExtractArticleType(d) ==
    PyList(IF d.article_type = None THEN <<>> ELSE <<d.article_type>>)

\* v.lower(): a method of str, not of list
CallLower(v) ==
    IF v.kind = "str" THEN PyStr(StrLower(v.s)) ELSE Raise("AttributeError")

\* v[0]
Index0(v) ==
    IF v.kind = "list"
    THEN (IF v.items = <<>> THEN Raise("IndexError") ELSE PyStr(v.items[1]))
    ELSE (IF v.s = "" THEN Raise("IndexError") ELSE PyStr(SubSeq(v.s, 1, 1)))

\* the local_files list built from response.meta
LocalFiles(m) ==
    (IF "xml_url" \in DOMAIN m
     THEN <<[filetype |-> "xml", path |-> m["xml_url"]]>> ELSE <<>>)
    \o (IF "pdf_url" \in DOMAIN m
        THEN <<[filetype |-> "pdf", path |-> m["pdf_url"]]>> ELSE <<>>)
    \o (IF "pdfa_url" \in DOMAIN m
        THEN <<[filetype |-> "pdf/a", path |-> m["pdfa_url"]]>> ELSE <<>>)

\* parse_node from the record construction on, article_type being value v
BuildRecord(v, m) ==
    IF v.kind = "list"
    THEN Raise("TypeError")      \* dict.get with an unhashable key
    ELSE Return([kind |-> "dict",
                 related_article_doi |-> v.s \in {"correction", "addendum"},
                 original_doctype |-> <<v.s>>,
                 doctype |-> <<IF v.s \in DOMAIN article_type_mapping
                                THEN article_type_mapping[v.s]
                                ELSE default_article_type>>,
                 local_files |-> LocalFiles(m)])

\* parse_node(response, node)
parse_node(d, m) ==
    LET article_type == CallLower(ExtractArticleType(d)) IN
    IF article_type.kind = "raise" THEN article_type
    ELSE LET first == Index0(article_type) IN
         IF first.kind = "raise" THEN first
         ELSE IF first.s \notin allowed_article_types THEN Return(PyNone)
         ELSE BuildRecord(article_type, m)

ParseNode ==
    /\ result = NotCalled
    /\ result' = parse_node(doc, meta)
    /\ UNCHANGED <<zip, fs, runs, disk, task, doc, meta,
                   package_path, remote, sr, requests, affdoc, authors>>

InitParse ==
    /\ doc \in [article_type : RawTypes \cup {None}]
    /\ \E ks \in SUBSET MetaKeys : meta = [k \in ks |-> MetaPaths[k]]
    /\ result = NotCalled
    /\ IdleZip /\ IdleUnpack /\ IdleRace /\ IdleStart /\ IdleAffil

NextParse == ParseNode

SpecParse == InitParse /\ [][NextParse]_vars

Called == result # NotCalled
Allowed(d) ==
    d.article_type # None /\ StrLower(d.article_type) \in allowed_article_types
IsRecord(r) == r.kind = "return" /\ r.value.kind = "dict"

\* C1: a document whose article-type is absent or, lowercased, not in the
\* allowed set makes parse_node return None; a document whose lowercased
\* article-type is allowed is not filtered by the gate.
C1_ArticleTypeGate ==
    Called =>
        IF Allowed(doc) THEN result # Return(PyNone)
                        ELSE result = Return(PyNone)

\* C2: for an allowed article-type the emitted record has exactly one
\* doctype, the article_type_mapping entry of the type (never "unknown"), and
\* exactly one original_doctype, the article-type value.
C2_DoctypeMapping ==
    (Called /\ Allowed(doc)) =>
        /\ IsRecord(result)
        /\ result.value.doctype
              = <<article_type_mapping[StrLower(doc.article_type)]>>
        /\ result.value.doctype # <<default_article_type>>
        /\ result.value.original_doctype
              \in {<<doc.article_type>>, <<StrLower(doc.article_type)>>}

\* C5: the emitted record's local_files holds exactly one {filetype, path}
\* entry per key of xml_url, pdf_url, pdfa_url supplied in the task metadata,
\* with the supplied path, and none for a key not supplied.
C5_LocalFiles ==
    (Called /\ Allowed(doc)) =>
        /\ IsRecord(result)
        /\ LET lf == result.value.local_files
               ft == [xml_url |-> "xml", pdf_url |-> "pdf", pdfa_url |-> "pdf/a"]
           IN /\ Len(lf) = Cardinality(DOMAIN meta)
              /\ \A k \in MetaKeys :
                    Cardinality({j \in 1..Len(lf) : lf[j].filetype = ft[k]})
                        = (IF k \in DOMAIN meta THEN 1 ELSE 0)
              /\ \A k \in DOMAIN meta :
                    \E j \in 1..Len(lf) :
                        lf[j] = [filetype |-> ft[k], path |-> meta[k]]

--------------------------------------------------------------------------
(* Discovery: start_requests, and the engine handing each downloaded bundle  *)
(* to the Request's callback.                                                *)

MaxFolders == 2

OXFORD_DOWNLOAD_DIR == "/d"
ftp_folder == "hooks"
ftp_host == "ftp.example.com"

FolderNames == {"f1", ".h", "f2"}
FileOrder == <<"a.xml.zip", "b.txt", "c.zip.part">>
FileNames == SeqToSet(FileOrder)

\* values of strftime('%Y-%m-%d_%H:%M:%S', localtime()), in time order
Stamps == <<"2022-03-01_10:00:00", "2022-03-01_10:00:01">>

\* what the downloaded bundles hold
DownloadLists == {<<>>, <<"a.xml">>, <<"a.xml", "a.pdf">>}

\* the callbacks the spider class defines
SpiderMethods == {"start_requests", "handle_package_ftp", "parse_node"}

Injective(q) == \A i, j \in 1..Len(q) : q[i] = q[j] => i = j

RemoteTrees ==
    [root : {q \in UNION {[1..n -> FolderNames] : n \in 0..MaxFolders} :
                Injective(q)},
     new : [FolderNames -> SUBSET FileNames]]

\* ftp_list_folders without the test for a leading dot
ListAllFolders(listing) == listing

\* ftp_list_folders: the names host.listdir returned, hidden ones dropped
ftp_list_folders(listing) == SelectSeq(listing, LAMBDA f : ~StartsWith(f, "."))

\* ftp_list_files(...)[0]: the paths the transfer client reports as new
ftp_list_files(server_folder, tree, folder) ==
    LET names == SelectSeq(FileOrder, LAMBDA n : n \in tree.new[folder])
    IN [k \in 1..Len(names) |-> PathJoin(server_folder, names[k])]

\* the Requests one pass of the loop over new_files yields; Request copies
\* the meta dict it is given
FolderRequests(new_files, new_download_name) ==
    LET zips == SelectSeq(new_files, LAMBDA f : Contains(f, ".zip"))
    IN [k \in 1..Len(zips) |->
          [url |-> "ftp://" \o ftp_host \o "/" \o zips[k],
           callback |-> "handle_package_ftp",
           meta |-> [ftp_local_filename |->
                        PathJoin(OXFORD_DOWNLOAD_DIR,
                                 new_download_name \o "_" \o Basename(zips[k]))]]]

\* start_requests up to its first listing: in local-package mode the Request
\* names the callback self.handle_package_file
StartRequests ==
    /\ sr.pc = "start"
    /\ IF package_path # None
       THEN IF "handle_package_file" \in SpiderMethods
            THEN /\ requests' = <<[url |-> package_path,
                                   callback |-> "handle_package_file",
                                   meta |-> <<>>]>>
                 /\ sr' = [sr EXCEPT !.pc = "done"]
            ELSE /\ requests' = requests
                 /\ sr' = [sr EXCEPT !.pc = "raised"]
       ELSE /\ requests' = requests
            /\ sr' = [sr EXCEPT !.pc = "folders",
                                !.folders = ftp_list_folders(remote.root),
                                !.sessions = @ + 1]
    /\ UNCHANGED <<zip, fs, runs, disk, task, doc, meta, result,
                   package_path, remote, affdoc, authors>>

\* one pass of the loop over the folders
ListFolder ==
    /\ sr.pc = "folders"
    /\ sr.k <= Len(sr.folders)
    /\ \E c \in sr.clock..Len(Stamps) :
          LET folder == sr.folders[sr.k]
              new_files == ftp_list_files(PathJoin(ftp_folder, folder),
                                          remote, folder)
          IN /\ requests' = requests \o FolderRequests(new_files, Stamps[c])
             /\ sr' = [sr EXCEPT !.k = @ + 1, !.clock = c, !.sessions = @ + 1]
    /\ UNCHANGED <<zip, fs, runs, disk, task, doc, meta, result,
                   package_path, remote, affdoc, authors>>

\* the loop over the folders is over
EndRequests ==
    /\ sr.pc = "folders"
    /\ sr.k > Len(sr.folders)
    /\ sr' = [sr EXCEPT !.pc = "done"]
    /\ UNCHANGED <<zip, fs, runs, disk, task, doc, meta, result,
                   package_path, remote, requests, affdoc, authors>>

\* the engine downloads the next Request's bundle and calls its callback
Dispatch ==
    /\ sr.handled < Len(requests)
    /\ LET rq == requests[sr.handled + 1] IN
       /\ rq.callback = "handle_package_ftp"
       /\ \E names \in DownloadLists :
             LET r == handle_package_ftp(rq.meta.ftp_local_filename, names, fs)
             IN /\ fs' = r.files
                /\ runs' = Append(runs, [before |-> fs, after |-> r.files,
                                         written |-> r.written,
                                         tasks |-> r.tasks])
    /\ sr' = [sr EXCEPT !.handled = @ + 1]
    /\ UNCHANGED <<zip, disk, task, doc, meta, result,
                   package_path, remote, requests, affdoc, authors>>

NoRemote == [root |-> <<>>, new |-> [f \in FolderNames |-> {}]]

InitStart ==
    /\ \/ /\ zip \in [path : {"/d/a.xml.zip", "/d/a_archival.zip"},
                      names : DownloadLists]
          /\ package_path = zip.path
          /\ remote = NoRemote
       \/ /\ IdleZip
          /\ package_path = None
          /\ remote \in {t \in RemoteTrees :
                            \A f \in FolderNames \ SeqToSet(t.root) :
                                t.new[f] = {}}
    /\ sr = [pc |-> "start", folders |-> <<>>, k |-> 1, clock |-> 1,
             sessions |-> 0, handled |-> 0]
    /\ requests = <<>>
    /\ IdleUnpack /\ IdleRace /\ IdleParse /\ IdleAffil

NextStart == StartRequests \/ ListFolder \/ EndRequests \/ Dispatch

SpecStart == InitStart /\ [][NextStart]_vars

Ended == sr.pc \in {"done", "raised"}

\* C7: with a package path configured, start_requests opens no transfer
\* session and dispatches exactly one request, for that path, handled by the
\* bundle unpacker, which emits one extraction task per XML file of the bundle.
C7_LocalPackageMode ==
    (package_path # None /\ Ended) =>
        /\ sr.pc = "done"
        /\ sr.sessions = 0
        /\ Len(requests) = 1
        /\ requests[1].url = package_path
        /\ requests[1].callback = "handle_package_ftp"
        /\ sr.handled = 1 =>
              Len(runs[1].tasks) = Len(EntriesOf(zip.names, ".xml"))

\* the remote paths C8 speaks of: new files with a zip name in the folders of
\* the root listing that are not hidden
NewBundles ==
    {PathJoin(PathJoin(ftp_folder, f), n) :
        f \in {g \in SeqToSet(remote.root) : ~StartsWith(g, ".")},
        n \in {x \in FileNames : EndsWith(x, ".zip")}}
    \cap UNION {{PathJoin(PathJoin(ftp_folder, f), n) : n \in remote.new[f]} :
                  f \in FolderNames}

\* C8: in remote-discovery mode start_requests yields exactly one download
\* request per new zip file of a non-hidden subfolder of the root folder, none
\* for a file of a hidden subfolder or a file that is no zip, each carrying a
\* local target path ending in the remote file's base name.
C8_RemoteDiscovery ==
    (package_path = None /\ sr.pc = "done") =>
        /\ {requests[k].url : k \in 1..Len(requests)}
              = {"ftp://" \o ftp_host \o "/" \o b : b \in NewBundles}
        /\ Len(requests) = Cardinality(NewBundles)
        /\ \A k \in 1..Len(requests) :
              /\ requests[k].callback = "handle_package_ftp"
              /\ StartsWith(requests[k].meta.ftp_local_filename,
                            OXFORD_DOWNLOAD_DIR \o "/")
              /\ EndsWith(requests[k].meta.ftp_local_filename,
                          "_" \o Basename(requests[k].url))

--------------------------------------------------------------------------
(* Author and affiliation extraction: _get_authors, which parse_node calls   *)
(* and the affiliation test calls on fixture documents.                      *)

MaxSegs == 2
MaxRefs == 2
MaxAuthors == 1

Delimiter == ", "

\* the text of an affiliation's sub-elements; "" is an empty sub-element
SegTexts == {"", "Kyoto University", "Japan"}
SegLists == UNION {[1..n -> SegTexts] : n \in 0..MaxSegs}

\* the affiliation of fixture 2020_oup_ptaa186.xml and the string expected of it
FixtureAff ==
    <<"Institute of Science and Engineering", "", "Shimane University", "",
      "Matsue 690-8504", "", "Japan">>
FixtureExpected ==
    "Institute of Science and Engineering, , Shimane University, , Matsue 690-8504, , Japan"

AffIds == {"aff1", "aff2"}
RefLists == UNION {[1..n -> AffIds] : n \in 0..MaxRefs}
AuthorLists ==
    UNION {[1..n -> [name : {"A. Author"}, refs : RefLists]] : n \in 1..MaxAuthors}

RECURSIVE JoinNonEmpty(_)
\* the join with the empty sub-elements dropped
JoinNonEmpty(segs) ==
    LET kept == SelectSeq(segs, LAMBDA x : x # "") IN
    IF kept = <<>> THEN ""
    ELSE IF Len(kept) = 1 THEN kept[1]
    ELSE kept[1] \o Delimiter \o JoinNonEmpty(Tail(kept))

RECURSIVE JoinSegs(_)
\* the text of one affiliation: its sub-elements in document order, joined
JoinSegs(segs) ==
    IF segs = <<>> THEN ""
    ELSE IF Len(segs) = 1 THEN segs[1]
    ELSE segs[1] \o Delimiter \o JoinSegs(Tail(segs))

\* _get_authors: per author, the referenced affiliations in reference order
get_authors(d) ==
    [a \in 1..Len(d.authors) |->
        [name |-> d.authors[a].name,
         affiliations |->
            [i \in 1..Len(d.authors[a].refs) |->
                [value |-> JoinSegs(d.affs[d.authors[a].refs[i]])]]]]

GetAuthors ==
    /\ ~authors.called
    /\ authors' = [called |-> TRUE, out |-> get_authors(affdoc)]
    /\ UNCHANGED <<zip, fs, runs, disk, task, doc, meta, result,
                   package_path, remote, sr, requests, affdoc>>

InitAffil ==
    /\ \E s1 \in SegLists, al \in AuthorLists :
          affdoc = [affs |-> [aff1 |-> s1, aff2 |-> FixtureAff], authors |-> al]
    /\ authors = NoAuthors
    /\ IdleZip /\ IdleUnpack /\ IdleRace /\ IdleParse /\ IdleStart

NextAffil == GetAuthors

SpecAffil == InitAffil /\ [][NextAffil]_vars

RECURSIVE SplitOn(_, _)
\* s.split(d)
SplitOn(s, d) ==
    IF Find(s, d) = -1 THEN <<s>>
    ELSE <<PySlice(s, 0, Find(s, d))>>
            \o SplitOn(PySlice(s, Find(s, d) + Len(d), Len(s)), d)

\* C9: each author's affiliation strings are the referenced affiliations in
\* reference order, each the sub-elements in document order joined by the
\* delimiter with every empty sub-element kept as an empty segment; the
\* fixture affiliation gives the expected literal string.
C9_AffiliationAssembly ==
    authors.called =>
        /\ Len(authors.out) = Len(affdoc.authors)
        /\ \A a \in 1..Len(authors.out) :
              LET refs == affdoc.authors[a].refs
                  out == authors.out[a].affiliations
              IN /\ Len(out) = Len(refs)
                 /\ \A i \in 1..Len(refs) :
                       LET segs == affdoc.affs[refs[i]] IN
                       /\ segs # <<>> => SplitOn(out[i].value, Delimiter) = segs
                       /\ segs = <<>> => out[i].value = ""
                       /\ refs[i] = "aff2" => out[i].value = FixtureExpected

C9_Witness ==
    /\ authors.called
    /\ \E a \in 1..Len(authors.out) :
          /\ Len(authors.out[a].affiliations) = 2
          /\ authors.out[a].affiliations[1].value = ", Japan"
          /\ authors.out[a].affiliations[2].value = FixtureExpected

====
